---- MODULE Spec2Model ----
(***************************************************************************)
(* The streaming MMD estimation engine of shogun's CMMD                    *)
(* (src/src/shogun/statistical_testing/MMD.cpp): the burst loop of         *)
(* compute_statistic_variance, compute_statistic_and_Q and sample_null,    *)
(* the parallel per-block stages merge_samples / compute_kernel /          *)
(* compute_jobs, compute_distance and select_kernel.                       *)
(*                                                                         *)
(* float64_t values are modelled in exact arithmetic as normalised         *)
(* fractions <<numerator, denominator>>.  The data source, the kernels,    *)
(* the job executor, the jobs and the normalisation rules are external to  *)
(* MMD.cpp; they are modelled from the contract the engine consumes.       *)
(***************************************************************************)
EXTENDS Integers, Sequences, FiniteSets, TLC

\* ------------------------------------------------------------- bounds
\* total number of blocks the data source delivers in one pass
MaxBlocks == 3
\* largest number of blocks in one burst
MaxBurst == 2
\* samples of a block are drawn from 0..MaxSample
MaxSample == 1
\* a random within-block permutation is one of 0..MaxPerm
MaxPerm == 1
\* how often the caller runs the same estimator on the frozen stream
MaxRuns == 2

\* ------------------------------------------------ float64_t, exactly
RECURSIVE Gcd(_, _)
Gcd(a, b) == IF b = 0 THEN a ELSE Gcd(b, a % b)

AbsInt(a) == IF a < 0 THEN -a ELSE a

\* the fraction n/d (d # 0) in lowest terms with a positive denominator
Frac(n, d) ==
    LET s == IF d < 0 THEN -1 ELSE 1
        g == Gcd(AbsInt(n), AbsInt(d))
    IN  <<(s * n) \div g, (s * d) \div g>>

FromInt(n) == <<n, 1>>
Zero == FromInt(0)
Add(x, y) == Frac(x[1] * y[2] + y[1] * x[2], x[2] * y[2])
Sub(x, y) == Frac(x[1] * y[2] - y[1] * x[2], x[2] * y[2])
Mul(x, y) == Frac(x[1] * y[1], x[2] * y[2])
\* a float64_t divided by an index_t counter (counters start at 1)
DivInt(x, n) == Frac(x[1], x[2] * n)

Min(a, b) == IF a < b THEN a ELSE b

\* ------------------------------------------------------ configuration
StatisticTypes == {"ST_UNBIASED_FULL", "ST_UNBIASED_INCOMPLETE", "ST_BIASED_FULL"}
VarianceMethods == {"VEM_DIRECT", "VEM_PERMUTATION"}
NullApproximationMethods ==
    {"NAM_PERMUTATION", "NAM_MMD1_GAUSSIAN", "NAM_MMD2_SPECTRUM", "NAM_MMD2_GAMMA"}

NoJob == [kind |-> "nullptr", st |-> "none"]
NoKernel == [type |-> "nullptr", width |-> 0]
Kernel(w) == [type |-> "K_GAUSSIAN", width |-> w]

VARIABLES
    self,        \* CMMD::Self: configuration, jobs, kernel_selection_mgr
    km,          \* the owner's kernel manager: km[1] is kernel slot 0
    dm,          \* the owner's data manager (the streaming source)
    cm,          \* the ComputationManager local to the running operation
    op,          \* the operation of CMMD::Self that is running
    entry,       \* the public method of CMMD the caller used
    pc,          \* position of the driver
    kernel,      \* the local `kernel` of the running operation
    next_burst,  \* the local `next_burst`
    blocks,      \* the local `blocks`
    pending,     \* indices of the running omp parallel for not yet executed
    csv,         \* locals of compute_statistic_variance
    csq,         \* locals of compute_statistic_and_Q
    snl,         \* locals of sample_null
    sel,         \* locals and observed calls of select_kernel
    ret,         \* what the public method returned
    err,         \* the error the operation ended with
    joblog,      \* per burst, the scalars the executor returned in this call
    run,         \* number of the caller's current run
    prev,        \* entry, result and executor log of the caller's previous run
    trace        \* the calls the running operation has made, in order

vars == <<self, km, dm, cm, op, entry, pc, kernel, next_burst, blocks, pending,
          csv, csq, snl, sel, ret, err, joblog, run, prev, trace>>

\* ------------------------------------------------------- data manager
Samples == 0..MaxSample
EmptyBurst == [p |-> <<>>, q |-> <<>>]
NumBlocks(b) == Len(b.p)
IsEmpty(b) == NumBlocks(b) = 0

RECURSIVE TapeBlocks(_)
TapeBlocks(t) == IF t = <<>> THEN 0 ELSE NumBlocks(t[1]) + TapeBlocks(Tail(t))

\* the data of distribution Q is fixed: its g-th block (from 0) holds the
\* sample 1 or 2 in turn; the data of distribution P is drawn from Samples
QBlock(g) == 1 + (g % 2)

\* every burst of n blocks that follows g blocks: block i of P comes with
\* block i of Q
Bursts(n, g) == {[p |-> ps, q |-> [i \in 1..n |-> QBlock(g + i - 1)]] :
                    ps \in [1..n -> Samples]}

\* size: the number of blocks of each distribution the source holds at most
DmInit(size) == [started |-> FALSE, pos |-> 0, tape |-> <<>>, closed |-> FALSE,
                 size |-> size,
                 train_mode |-> FALSE, ratio |-> 0, blockwise |-> TRUE]

DmStart(d) == [d EXCEPT !.started = TRUE]
DmEnd(d) == [d EXCEPT !.started = FALSE]
DmReset(d) == [d EXCEPT !.pos = 0]

\* next(): the bursts already delivered are frozen on the tape and replayed
\* after a reset; past the tape the source delivers a fresh burst or the
\* empty burst that ends the stream.
DmNext(d) ==
    IF d.pos < Len(d.tape)
    THEN {[burst |-> d.tape[d.pos + 1], dm |-> [d EXCEPT !.pos = @ + 1]]}
    ELSE IF d.closed
    THEN {[burst |-> EmptyBurst, dm |-> d]}
    ELSE {[burst |-> EmptyBurst, dm |-> [d EXCEPT !.closed = TRUE]]}
         \cup {[burst |-> b, dm |-> [d EXCEPT !.tape = Append(@, b), !.pos = @ + 1]] :
                 b \in UNION {Bursts(n, TapeBlocks(d.tape)) :
                         n \in 1..Min(MaxBurst, d.size - TapeBlocks(d.tape))}}

\* -------------------------------------------------------------- jobs
\* mmd::UnbiasedFull, mmd::UnbiasedIncomplete, mmd::BiasedFull,
\* mmd::WithinBlockPermutation and the direct variance estimator are
\* stateless functions of a kernel matrix.
StatisticJob(st) ==
    CASE st = "ST_UNBIASED_FULL" -> [kind |-> "UnbiasedFull", st |-> st]
      [] st = "ST_UNBIASED_INCOMPLETE" -> [kind |-> "UnbiasedIncomplete", st |-> st]
      [] st = "ST_BIASED_FULL" -> [kind |-> "BiasedFull", st |-> st]

create_statistic_job(s) ==
    [s EXCEPT !.statistic_job =
                  IF s.statistic_type \in StatisticTypes
                  THEN StatisticJob(s.statistic_type) ELSE @,
              !.permutation_job =
                  [kind |-> "WithinBlockPermutation", st |-> s.statistic_type]]

get_direct_estimation_method == [kind |-> "WithinBlockDirect", st |-> "none"]

create_variance_job(s) ==
    [s EXCEPT !.variance_job =
                  CASE s.variance_estimation_method = "VEM_DIRECT" ->
                           get_direct_estimation_method
                    [] s.variance_estimation_method = "VEM_PERMUTATION" ->
                           s.permutation_job
                    [] OTHER -> @]

create_computation_jobs(s) == create_variance_job(create_statistic_job(s))

\* a merged block is the P-block followed by the Q-block
create_merged_copy(block_p, block_q) == <<block_p, block_q>>

NoFeatures == <<>>
NoMatrix == <<>>

\* get_kernel_matrix of a clone of kernel k bound to a merged block
get_kernel_matrix(k, b) ==
    [i \in 1..Len(b) |-> [j \in 1..Len(b) |-> k.width * b[i] * b[j]]]

\* the value of a statistic job on a kernel matrix over one P- and one Q-sample
StatisticValue(kind, K) ==
    CASE kind = "BiasedFull" -> K[1][1] + K[2][2] - K[1][2] - K[2][1]
      [] kind = "UnbiasedFull" -> 0 - K[1][2] - K[2][1]
      [] kind = "UnbiasedIncomplete" -> 0 - K[1][2]

\* job(K); d is the permutation a WithinBlockPermutation job draws
EvalJob(job, K, d) ==
    CASE job.kind = "WithinBlockPermutation" ->
             StatisticValue(StatisticJob(job.st).kind, K) + d
      [] job.kind = "WithinBlockDirect" -> K[1][1] + K[2][2]
      [] OTHER -> StatisticValue(job.kind, K)

\* ------------------------------------------------ computation manager
\* mode is the executor selected by use_cpu() or use_gpu()
CmFresh == [jobs |-> <<>>, data |-> <<>>, results |-> <<>>, mode |-> "unset",
            done |-> FALSE]
enqueue_job(c, job) == [c EXCEPT !.jobs = Append(@, job)]
num_data(c, n) == [c EXCEPT !.data = [i \in 1..n |-> NoMatrix]]

\* ------------------------------------------------------ normalisation
\* CMMD::normalize_statistic and CMMD::normalize_variance are supplied by
\* the concrete test (a scaling by a factor of the sample sizes)
NormStatisticFactor == 2
NormVarianceFactor == 3
normalize_statistic(x) == Mul(x, FromInt(NormStatisticFactor))
normalize_variance(x) == Mul(x, FromInt(NormVarianceFactor))

\* ------------------------------------------------- online accumulation
\* a running mean whose counter is taken to start at 0
MeanUpdate_CounterFromZero(mean, x, counter) ==
    Add(mean, DivInt(Sub(x, mean), counter + 1))

\* mean += (x - mean) / counter
MeanUpdate(mean, x, counter) == Add(mean, DivInt(Sub(x, mean), counter))

\* the loop `for i: delta=xs[i]-mean; mean+=delta/counter; counter++`
RECURSIVE FoldMean(_, _, _)
FoldMean(mean, counter, xs) ==
    IF xs = <<>> THEN <<mean, counter>>
    ELSE FoldMean(MeanUpdate(mean, FromInt(xs[1]), counter), counter + 1, Tail(xs))

\* an update whose cross-term uses the mean from before the update
PermVarianceUpdate_StaleMean(psm, variance, x, counter) ==
    LET delta == Sub(x, psm)
    IN  <<Add(psm, DivInt(delta, counter)), Add(variance, Mul(delta, delta))>>

\* one scalar of the permutation-mode loop of compute_statistic_variance:
\* <<permuted_samples_statistic, variance>> after the update
PermVarianceUpdate(psm, variance, x, counter) ==
    LET delta == Sub(x, psm)
        psm2 == Add(psm, DivInt(delta, counter))
    IN  <<psm2, Add(variance, Mul(delta, Sub(x, psm2)))>>

RECURSIVE FoldPermVariance(_, _, _, _)
FoldPermVariance(psm, variance, counter, xs) ==
    IF xs = <<>> THEN <<psm, variance, counter>>
    ELSE LET u == PermVarianceUpdate(psm, variance, FromInt(xs[1]), counter)
         IN  FoldPermVariance(u[1], u[2], counter + 1, Tail(xs))

\* ---------------------------------------------------------- the object
\* CMMD::Self::Self
SelfInit == [use_gpu |-> FALSE, num_null_samples |-> 250,
             statistic_type |-> "ST_UNBIASED_FULL",
             variance_estimation_method |-> "VEM_DIRECT",
             null_approximation_method |-> "NAM_PERMUTATION",
             statistic_job |-> NoJob, permutation_job |-> NoJob,
             variance_job |-> NoJob, kernel_selection_mgr |-> <<>>]

\* the object after the constructor and the calls of CMMD::use_gpu,
\* CMMD::set_statistic_type and CMMD::set_null_approximation_method, each of
\* which stores its argument in the field
Configured ==
    {[SelfInit EXCEPT !.use_gpu = gpu, !.statistic_type = stype,
                      !.null_approximation_method = nmethod] :
        gpu \in BOOLEAN, stype \in StatisticTypes,
        nmethod \in NullApproximationMethods}

NoResult == <<>>
NoPrev == [entry |-> "none", ret |-> NoResult, joblog |-> <<>>]

\* the storage of the locals before the first call
CsqUnset == [statistic |-> <<>>, Q |-> <<>>, term_counters_statistic |-> <<>>,
             term_counters_Q |-> <<>>, mmds |-> <<>>, k |-> 0, num_blocks |-> 0]
SnlUnset == [statistic |-> <<>>, term_counters |-> <<>>, j |-> 0]
SelUnset == [kmethod |-> "none", weighted_kernel |-> FALSE, policy |-> "nullptr",
             policy_calls |-> 0, train_test_ratio |-> 0, distance |-> "empty",
             blockwise |-> FALSE]
CsvUnset == [statistic |-> Zero, permuted_samples_statistic |-> Zero,
             variance |-> Zero, statistic_term_counter |-> 1,
             variance_term_counter |-> 1]

\* locals that survive from the previous call
CsvFresh_Stale == csv

\* the locals of compute_statistic_variance as it declares them
CsvFresh == [statistic |-> Zero, permuted_samples_statistic |-> Zero,
             variance |-> Zero, statistic_term_counter |-> 1,
             variance_term_counter |-> 1]

\* a check that lets an empty kernel slot through
KernelIsSet_Unchecked(k) == TRUE

\* REQUIRE(kernel != nullptr, "Kernel is not set!\n")
KernelIsSet(k) == k # NoKernel

\* REQUIRE, SG_ERROR and SG_SERROR throw: the operation ends without a result
Fail(msg) == /\ pc' = "failed"
             /\ err' = msg
             /\ ret' = NoResult

\* ------------------------------------------------------ calls observed
\* cm.enqueue_job for each job, then dm.start() and the first dm.next()
LoopBegin(njobs) == [i \in 1..njobs |-> "enqueue_job"] \o <<"start", "next">>

\* an exit that shuts the executor down and leaves the stream started
LoopEnd_EndOmitted(t) == Append(t, "done")

\* dm.end(); cm.done()
LoopEnd(t) == t \o <<"end", "done">>

\* ------------------------------------------- omp parallel for stages
\* merge_samples: blocks.resize(next_burst.num_blocks())
MergeSamplesBegin ==
    /\ blocks' = [i \in 1..NumBlocks(next_burst) |-> NoFeatures]
    /\ pending' = 1..NumBlocks(next_burst)
    /\ pc' = "merge"

\* an iteration that pairs every P-block with the first Q-block
MergedBlock_FirstQ(burst, i) == create_merged_copy(burst.p[i], burst.q[1])

\* one iteration of the parallel loop of merge_samples
MergedBlock(burst, i) == create_merged_copy(burst.p[i], burst.q[i])

MergeTask(i) ==
    /\ pc = "merge"
    /\ i \in pending
    /\ blocks' = [blocks EXCEPT ![i] = MergedBlock(next_burst, i)]
    /\ pending' = pending \ {i}
    /\ UNCHANGED <<self, km, dm, cm, op, entry, pc, kernel, next_burst, csv, csq, snl, sel,
                   ret, err, joblog, run, prev, trace>>

\* the loop is over: next_burst.clear()
MergeEnd ==
    /\ pc = "merge"
    /\ pending = {}
    /\ next_burst' = EmptyBurst
    /\ pc' = "merged"
    /\ UNCHANGED <<self, km, dm, cm, op, entry, kernel, blocks, pending, csv, csq, snl, sel,
                   ret, err, joblog, run, prev, trace>>

\* compute_kernel up to its parallel loop
ComputeKernelBegin(k) ==
    IF k.type = "K_CUSTOM"
    THEN /\ Fail("Underlying kernel cannot be custom!")
         /\ UNCHANGED <<cm, pending>>
    ELSE /\ cm' = num_data(cm, Len(blocks))
         /\ pending' = 1..Len(blocks)
         /\ pc' = "kernel"
         /\ UNCHANGED <<ret, err>>

\* one iteration of the parallel loop of compute_kernel
KernelTask(i) ==
    /\ pc = "kernel"
    /\ i \in pending
    /\ cm' = [cm EXCEPT !.data[i] = get_kernel_matrix(kernel, blocks[i])]
    /\ pending' = pending \ {i}
    /\ UNCHANGED <<self, km, dm, op, entry, pc, kernel, next_burst, blocks, csv, csq, snl, sel,
                   ret, err, joblog, run, prev, trace>>

\* what becomes of an exception that leaves the parallel loop: it reaches
\* the caller of the operation (a build without OpenMP), or the runtime
\* ends the process (an exception leaving an OpenMP region)
ThrowOutcomes == {"failed", "terminated"}

\* a handler that logs the failure and lets the loop go on
CatchBlock_Swallows(outcome) == "kernel"

\* catch (ShogunException e) { SG_SERROR(...) }: the handler throws again
CatchBlock(outcome) == outcome

\* one iteration of the parallel loop of compute_kernel in which clone, init
\* or get_kernel_matrix throws: slot i is not written
KernelTaskThrows(i) ==
    /\ pc = "kernel"
    /\ i \in pending
    /\ \E outcome \in ThrowOutcomes : pc' = CatchBlock(outcome)
    /\ err' = "Try using less number of blocks per burst!"
    /\ ret' = NoResult
    /\ pending' = pending \ {i}
    /\ UNCHANGED <<self, km, dm, cm, op, entry, kernel, next_burst, blocks,
                   csv, csq, snl, sel, joblog, run, prev, trace>>

KernelEnd ==
    /\ pc = "kernel"
    /\ pending = {}
    /\ pc' = "kernel_done"
    /\ UNCHANGED <<self, km, dm, cm, op, entry, kernel, next_burst, blocks,
                   pending, csv, csq, snl, sel, ret, err, joblog, run, prev,
                   trace>>

\* compute_jobs: if (use_gpu) cm.use_gpu() else cm.use_cpu(), then
\* compute_data_parallel_jobs()
ComputeJobsBegin ==
    /\ cm' = [cm EXCEPT !.mode = IF self.use_gpu THEN "gpu" ELSE "cpu",
                        !.results =
                  [j \in 1..Len(cm.jobs) |-> [i \in 1..Len(cm.data) |-> 0]]]
    /\ pending' = 1..Len(cm.data)
    /\ pc' = "jobs"

\* the executor evaluates every enqueued job on the matrix of block i
JobTask(i) ==
    /\ pc = "jobs"
    /\ i \in pending
    /\ \E d \in 0..MaxPerm :
         cm' = [cm EXCEPT !.results =
                   [j \in 1..Len(cm.jobs) |->
                       [@[j] EXCEPT ![i] = EvalJob(cm.jobs[j], cm.data[i], d)]]]
    /\ pending' = pending \ {i}
    /\ UNCHANGED <<self, km, dm, op, entry, pc, kernel, next_burst, blocks, csv, csq, snl, sel,
                   ret, err, joblog, run, prev, trace>>

JobsEnd ==
    /\ pc = "jobs"
    /\ pending = {}
    /\ pc' = "jobs_done"
    /\ joblog' = Append(joblog, cm.results)
    /\ UNCHANGED <<self, km, dm, cm, op, entry, kernel, next_burst, blocks,
                   pending, csv, csq, snl, sel, ret, err, run, prev, trace>>

\* ------------------------------------------ compute_statistic_variance
Entries == {"compute_statistic", "compute_variance", "compute_statistic_variance"}

\* the kernel check, the fresh locals, the jobs, dm.start() and the first
\* dm.next()
SVCall(e) ==
    /\ pc = "idle"
    /\ op' = "compute_statistic_variance"
    /\ entry' = e
    /\ kernel' = km[1]
    /\ joblog' = <<>>
    /\ IF ~KernelIsSet(km[1])
       THEN /\ Fail("Kernel is not set!")
            /\ trace' = <<>>
            /\ UNCHANGED <<self, dm, cm, next_burst, csv, csq, snl, sel>>
       ELSE /\ csv' = CsvFresh
            /\ trace' = LoopBegin(2)
            /\ self' = create_computation_jobs(self)
            /\ cm' = enqueue_job(enqueue_job(CmFresh, self'.statistic_job),
                                 self'.variance_job)
            /\ \E n \in DmNext(DmStart(dm)) :
                 /\ dm' = n.dm
                 /\ next_burst' = n.burst
            /\ pc' = "while"
            /\ ret' = NoResult
            /\ err' = "none"
    /\ UNCHANGED <<csq, snl, sel, km, blocks, pending, run, prev>>

SVMerge ==
    /\ pc = "while"
    /\ op = "compute_statistic_variance"
    /\ ~IsEmpty(next_burst)
    /\ MergeSamplesBegin
    /\ trace' = Append(trace, "merge_samples")
    /\ UNCHANGED <<self, km, dm, cm, op, entry, kernel, next_burst, csv, csq, snl, sel, ret,
                   err, joblog, run, prev>>

SVComputeKernel ==
    /\ pc = "merged"
    /\ op = "compute_statistic_variance"
    /\ ComputeKernelBegin(kernel)
    /\ trace' = Append(trace, "compute_kernel")
    /\ UNCHANGED <<self, km, dm, op, entry, kernel, next_burst, blocks, csv, csq, snl, sel,
                   joblog, run, prev>>

\* blocks.resize(0); compute_jobs(cm)
SVComputeJobs ==
    /\ pc = "kernel_done"
    /\ op = "compute_statistic_variance"
    /\ blocks' = <<>>
    /\ ComputeJobsBegin
    /\ trace' = Append(trace, "compute_jobs")
    /\ UNCHANGED <<self, km, dm, op, entry, kernel, next_burst, csv, csq, snl, sel, ret, err,
                   joblog, run, prev>>

\* the fold loops over cm.result(0) and cm.result(1)
CsvFold(c, vem, mmds, vars_) ==
    LET s == FoldMean(c.statistic, c.statistic_term_counter, mmds)
        c1 == [c EXCEPT !.statistic = s[1], !.statistic_term_counter = s[2]]
    IN  IF vem = "VEM_DIRECT"
        THEN LET v == FoldMean(c.variance, c.variance_term_counter,
                               SubSeq(vars_, 1, Len(mmds)))
             IN  [c1 EXCEPT !.variance = v[1], !.variance_term_counter = v[2]]
        ELSE LET v == FoldPermVariance(c.permuted_samples_statistic, c.variance,
                                       c.variance_term_counter, vars_)
             IN  [c1 EXCEPT !.permuted_samples_statistic = v[1],
                            !.variance = v[2], !.variance_term_counter = v[3]]

\* the folds of one burst, then next_burst=dm.next()
SVFold ==
    /\ pc = "jobs_done"
    /\ op = "compute_statistic_variance"
    /\ csv' = CsvFold(csv, self.variance_estimation_method,
                      cm.results[1], cm.results[2])
    /\ \E n \in DmNext(dm) :
         /\ dm' = n.dm
         /\ next_burst' = n.burst
    /\ pc' = "while"
    /\ trace' = trace \o <<"fold", "next">>
    /\ UNCHANGED <<csq, snl, sel, self, km, cm, op, entry, kernel, blocks, pending, ret, err,
                   joblog, run, prev>>

\* a result whose statistic is normalised a second time
CsvResult_NormalizedTwice(c, vem) ==
    <<normalize_statistic(normalize_statistic(c.statistic)),
      IF vem = "VEM_PERMUTATION" THEN normalize_variance(c.variance)
      ELSE c.variance>>

\* what Self::compute_statistic_variance returns
CsvResult(c, vem) ==
    <<normalize_statistic(c.statistic),
      IF vem = "VEM_PERMUTATION" THEN normalize_variance(c.variance)
      ELSE c.variance>>

\* CMMD::compute_statistic (.first), CMMD::compute_variance (.second) and
\* CMMD::compute_statistic_variance (the pair)
Wrapper(e, pair) ==
    CASE e = "compute_statistic" -> <<pair[1]>>
      [] e = "compute_variance" -> <<pair[2]>>
      [] e = "compute_statistic_variance" -> pair

\* dm.end(); cm.done(); normalise; return
SVFinish ==
    /\ pc = "while"
    /\ op = "compute_statistic_variance"
    /\ IsEmpty(next_burst)
    /\ dm' = DmEnd(dm)
    /\ cm' = [cm EXCEPT !.done = TRUE]
    /\ ret' = Wrapper(entry, CsvResult(csv, self.variance_estimation_method))
    /\ pc' = "returned"
    /\ trace' = LoopEnd(trace)
    /\ UNCHANGED <<self, km, op, entry, kernel, next_burst, blocks, pending,
                   csv, csq, snl, sel, err, joblog, run, prev>>

\* the caller rewinds the frozen stream and asks again
Rerun ==
    /\ pc = "returned"
    /\ run < MaxRuns
    /\ prev' = [entry |-> entry, ret |-> ret, joblog |-> joblog]
    /\ run' = run + 1
    /\ dm' = DmReset(dm)
    /\ pc' = "idle"
    /\ op' = "idle"
    /\ UNCHANGED <<self, km, cm, entry, kernel, next_burst, blocks, pending,
                   csv, csq, snl, sel, ret, err, joblog, trace>>

Stages ==
    \/ \E i \in 1..MaxBurst : MergeTask(i)
    \/ MergeEnd
    \/ \E i \in 1..MaxBurst : KernelTask(i)
    \/ \E i \in 1..MaxBurst : KernelTaskThrows(i)
    \/ KernelEnd
    \/ \E i \in 1..MaxBurst : JobTask(i)
    \/ JobsEnd

CustomKernel == [type |-> "K_CUSTOM", width |-> 1]

InitCommon ==
    /\ cm = CmFresh
    /\ op = "idle"
    /\ entry = "none"
    /\ pc = "idle"
    /\ kernel = NoKernel
    /\ next_burst = EmptyBurst
    /\ blocks = <<>>
    /\ pending = {}
    /\ csv = CsvUnset
    /\ csq = CsqUnset
    /\ snl = SnlUnset
    /\ sel = SelUnset
    /\ ret = NoResult
    /\ err = "none"
    /\ joblog = <<>>
    /\ run = 1
    /\ prev = NoPrev
    /\ trace = <<>>

\* the object after construction and configuration: the executor flag, the
\* statistic type, the null approximation method and a variance estimation
\* method were chosen, and kernel slot 0 is empty or holds a kernel
InitSV ==
    /\ InitCommon
    /\ dm = DmInit(MaxBlocks)
    /\ \E c \in Configured, vem \in VarianceMethods :
         self = [c EXCEPT !.variance_estimation_method = vem]
    /\ km \in {<<NoKernel>>, <<Kernel(1)>>, <<CustomKernel>>}

NextSV ==
    \/ \E e \in Entries : SVCall(e)
    \/ SVMerge
    \/ SVComputeKernel
    \/ SVComputeJobs
    \/ SVFold
    \/ SVFinish
    \/ Rerun
    \/ Stages

SpecSV == InitSV /\ [][NextSV]_vars

\* one call alone, with no second run after it
NextSVOnce ==
    \/ \E e \in Entries : SVCall(e)
    \/ SVMerge
    \/ SVComputeKernel
    \/ SVComputeJobs
    \/ SVFold
    \/ SVFinish
    \/ Stages

SpecSVOnce == InitSV /\ [][NextSVOnce]_vars

\* --------------------------------------------- compute_statistic_and_Q
\* largest number of kernels added with add_kernel
MaxKernels == 2
\* the data of the multi-kernel runs holds at most 2*MaxPairs blocks
MaxPairs == 2

InCsq == op = "compute_statistic_and_Q"
num_kernels == Len(self.kernel_selection_mgr)

\* the locals as compute_statistic_and_Q declares and fills them
CsqFresh(n) ==
    [statistic |-> [i \in 1..n |-> Zero],
     Q |-> [i \in 1..n |-> [j \in 1..n |-> Zero]],
     term_counters_statistic |-> [i \in 1..n |-> 1],
     term_counters_Q |-> [i \in 1..n |-> [j \in 1..n |-> 1]],
     mmds |-> [i \in 1..n |-> <<>>],
     k |-> 1, num_blocks |-> 0]

\* a burst that is accepted whatever its block count
IsEvenBurst_Unchecked(n) == TRUE

\* REQUIRE(num_blocks%2==0, ...)
IsEvenBurst(n) == n % 2 = 0

QCall ==
    /\ pc = "idle"
    /\ op' = "compute_statistic_and_Q"
    /\ entry' = "compute_statistic_and_Q"
    /\ joblog' = <<>>
    /\ IF ~(num_kernels > 0)
       THEN /\ Fail("No kernels specified for kernel learning!")
            /\ trace' = <<>>
            /\ UNCHANGED <<self, dm, cm, next_burst, csq>>
       ELSE /\ csq' = CsqFresh(num_kernels)
            /\ trace' = LoopBegin(1)
            /\ self' = create_computation_jobs(self)
            /\ cm' = enqueue_job(CmFresh, self'.statistic_job)
            /\ \E n \in DmNext(DmStart(dm)) :
                 /\ dm' = n.dm
                 /\ next_burst' = n.burst
            /\ pc' = "while"
            /\ ret' = NoResult
            /\ err' = "none"
    /\ UNCHANGED <<km, kernel, blocks, pending, csv, snl, sel, run, prev>>

\* the head of the loop body: the block count check, then merge_samples
QMerge ==
    /\ pc = "while"
    /\ InCsq
    /\ ~IsEmpty(next_burst)
    /\ IF IsEvenBurst(NumBlocks(next_burst))
       THEN /\ csq' = [csq EXCEPT !.num_blocks = NumBlocks(next_burst), !.k = 1]
            /\ MergeSamplesBegin
            /\ trace' = Append(trace, "merge_samples")
            /\ UNCHANGED <<ret, err>>
       ELSE /\ Fail("The number of blocks per burst has to be even!")
            /\ UNCHANGED <<csq, blocks, pending, trace>>
    /\ UNCHANGED <<self, km, dm, cm, op, entry, kernel, next_burst, csv, snl,
                   sel, joblog, run, prev>>

\* for kernel k: kernel_selection_mgr.kernel_at(k), compute_kernel
QComputeKernel ==
    /\ pc \in {"merged", "for_k"}
    /\ InCsq
    /\ csq.k <= num_kernels
    /\ kernel' = self.kernel_selection_mgr[csq.k]
    /\ ComputeKernelBegin(kernel')
    /\ trace' = Append(trace, "compute_kernel")
    /\ UNCHANGED <<self, km, dm, op, entry, next_burst, blocks, csv, csq, snl,
                   sel, joblog, run, prev>>

QComputeJobs ==
    /\ pc = "kernel_done"
    /\ InCsq
    /\ ComputeJobsBegin
    /\ trace' = Append(trace, "compute_jobs")
    /\ UNCHANGED <<self, km, dm, op, entry, kernel, next_burst, blocks, csv,
                   csq, snl, sel, ret, err, joblog, run, prev>>

\* mmds[k]=cm.result(0) and the fold of its first num_blocks scalars into
\* statistic[k]
QFoldStatistic ==
    /\ pc = "jobs_done"
    /\ InCsq
    /\ LET k == csq.k
           s == FoldMean(csq.statistic[k], csq.term_counters_statistic[k],
                         SubSeq(cm.results[1], 1, csq.num_blocks))
       IN  csq' = [csq EXCEPT !.mmds[k] = cm.results[1],
                              !.statistic[k] = s[1],
                              !.term_counters_statistic[k] = s[2],
                              !.k = k + 1]
    /\ pc' = "for_k"
    /\ trace' = Append(trace, "fold")
    /\ UNCHANGED <<self, km, dm, cm, op, entry, kernel, next_burst, blocks,
                   pending, csv, snl, sel, ret, err, joblog, run, prev>>

\* a term built from the blocks' values instead of their differences
QTerm_NoDifference(mi, mj, k) == mi[k] * mj[k]

\* (mmds[i][k]-mmds[i][k+1])*(mmds[j][k]-mmds[j][k+1])
QTerm(mi, mj, k) == (mi[k] - mi[k + 1]) * (mj[k] - mj[k + 1])

\* the loop over k (here 1-based: k, k+2, ... while k < num_blocks) of one
\* cell: <<Q(i,j), term_counters_Q(i,j)>>
RECURSIVE FoldCell(_, _, _, _, _, _)
FoldCell(q, counter, mi, mj, k, nb) ==
    IF ~(k < nb) THEN <<q, counter>>
    ELSE FoldCell(MeanUpdate(q, FromInt(QTerm(mi, mj, k)), counter),
                  counter + 1, mi, mj, k + 2, nb)

\* a fold that leaves the upper triangle alone
Mirror_Omitted(Q, i, j) == Q

\* Q(j, i)=Q(i, j)
Mirror(Q, i, j) == [Q EXCEPT ![j][i] = Q[i][j]]

\* the loops over i and j<=i
RECURSIVE FoldQ(_, _, _)
FoldQ(c, i, j) ==
    IF i > Len(c.Q) THEN c
    ELSE IF j > i THEN FoldQ(c, i + 1, 1)
    ELSE LET cell == FoldCell(c.Q[i][j], c.term_counters_Q[i][j],
                              c.mmds[i], c.mmds[j], 1, c.num_blocks)
             c1 == [c EXCEPT !.Q[i][j] = cell[1],
                             !.term_counters_Q[i][j] = cell[2]]
         IN  FoldQ([c1 EXCEPT !.Q = Mirror(c1.Q, i, j)], i, j + 1)

\* after the last kernel: blocks.resize(0), the fold into Q, dm.next()
QFoldQ ==
    /\ pc = "for_k"
    /\ InCsq
    /\ csq.k > num_kernels
    /\ blocks' = <<>>
    /\ csq' = FoldQ(csq, 1, 1)
    /\ \E n \in DmNext(dm) :
         /\ dm' = n.dm
         /\ next_burst' = n.burst
    /\ pc' = "while"
    /\ trace' = trace \o <<"fold_Q", "next">>
    /\ UNCHANGED <<self, km, cm, op, entry, kernel, pending, csv, snl, sel,
                   ret, err, joblog, run, prev>>

\* std::for_each with a lambda that takes each entry by value: the
\* normalised value is assigned to the lambda's copy and the vector keeps
\* its entries
QNormalizeForEach(statistic) ==
    [i \in 1..Len(statistic) |->
        LET val == normalize_statistic(statistic[i]) IN statistic[i]]

\* mmds.clear(); dm.end(); cm.done(); the for_each; return
QFinish ==
    /\ pc = "while"
    /\ InCsq
    /\ IsEmpty(next_burst)
    /\ csq' = [csq EXCEPT !.mmds = <<>>]
    /\ dm' = DmEnd(dm)
    /\ cm' = [cm EXCEPT !.done = TRUE]
    /\ ret' = <<QNormalizeForEach(csq.statistic), csq.Q>>
    /\ pc' = "returned"
    /\ trace' = LoopEnd(trace)
    /\ UNCHANGED <<self, km, op, entry, kernel, next_burst, blocks, pending,
                   csv, snl, sel, err, joblog, run, prev>>

\* add_kernel was called for 0..MaxKernels kernels of distinct widths
KernelSets == {[i \in 1..n |-> Kernel(i)] : n \in 0..MaxKernels}

InitQ ==
    /\ InitCommon
    /\ dm = DmInit(2 * MaxPairs)
    /\ \E c \in Configured, ks \in KernelSets :
         self = [c EXCEPT !.kernel_selection_mgr = ks]
    /\ km = <<NoKernel>>

NextQ ==
    \/ QCall
    \/ QMerge
    \/ QComputeKernel
    \/ QComputeJobs
    \/ QFoldStatistic
    \/ QFoldQ
    \/ QFinish
    \/ Stages

SpecQ == InitQ /\ [][NextQ]_vars

\* --------------------------------------------------------- sample_null
\* largest replicate count set with set_num_null_samples
MaxNull == 2

InNull == op = "sample_null"

\* the locals as sample_null declares and fills them
SnlFresh(n) == [statistic |-> [i \in 1..n |-> Zero],
                term_counters |-> [i \in 1..n |-> 1], j |-> 1]

NullCall ==
    /\ pc = "idle"
    /\ op' = "sample_null"
    /\ entry' = "sample_null"
    /\ kernel' = km[1]
    /\ joblog' = <<>>
    /\ IF ~KernelIsSet(km[1])
       THEN /\ Fail("Kernel is not set!")
            /\ trace' = <<>>
            /\ UNCHANGED <<self, dm, cm, next_burst, snl>>
       ELSE /\ snl' = SnlFresh(self.num_null_samples)
            /\ trace' = LoopBegin(1)
            /\ self' = create_statistic_job(self)
            /\ cm' = enqueue_job(CmFresh, self'.permutation_job)
            /\ \E n \in DmNext(DmStart(dm)) :
                 /\ dm' = n.dm
                 /\ next_burst' = n.burst
            /\ pc' = "while"
            /\ ret' = NoResult
            /\ err' = "none"
    /\ UNCHANGED <<km, blocks, pending, csv, csq, sel, run, prev>>

NullMerge ==
    /\ pc = "while"
    /\ InNull
    /\ ~IsEmpty(next_burst)
    /\ MergeSamplesBegin
    /\ trace' = Append(trace, "merge_samples")
    /\ UNCHANGED <<self, km, dm, cm, op, entry, kernel, next_burst, csv, csq,
                   snl, sel, ret, err, joblog, run, prev>>

NullComputeKernel ==
    /\ pc = "merged"
    /\ InNull
    /\ ComputeKernelBegin(kernel)
    /\ snl' = [snl EXCEPT !.j = 1]
    /\ trace' = Append(trace, "compute_kernel")
    /\ UNCHANGED <<self, km, dm, op, entry, kernel, next_burst, blocks, csv,
                   csq, sel, joblog, run, prev>>

\* blocks.resize(0) and, for replicate j, compute_jobs(cm)
NullComputeJobs ==
    /\ pc \in {"kernel_done", "for_j"}
    /\ InNull
    /\ snl.j <= self.num_null_samples
    /\ blocks' = <<>>
    /\ ComputeJobsBegin
    /\ trace' = Append(trace, "compute_jobs")
    /\ UNCHANGED <<self, km, dm, op, entry, kernel, next_burst, csv, csq, snl,
                   sel, ret, err, joblog, run, prev>>

\* a fold that adds every replicate's outputs to the first accumulator
SnlFold_FirstAccumulator(s, mmds) ==
    LET m == FoldMean(s.statistic[1], s.term_counters[1], mmds)
    IN  [s EXCEPT !.statistic[1] = m[1], !.term_counters[1] = m[2],
                  !.j = s.j + 1]

\* the loop over cm.result(0) of replicate j, and ++j
SnlFold(s, mmds) ==
    LET m == FoldMean(s.statistic[s.j], s.term_counters[s.j], mmds)
    IN  [s EXCEPT !.statistic[s.j] = m[1], !.term_counters[s.j] = m[2],
                  !.j = s.j + 1]

NullFold ==
    /\ pc = "jobs_done"
    /\ InNull
    /\ snl' = SnlFold(snl, cm.results[1])
    /\ pc' = "for_j"
    /\ trace' = Append(trace, "fold")
    /\ UNCHANGED <<self, km, dm, cm, op, entry, kernel, next_burst, blocks,
                   pending, csv, csq, sel, ret, err, joblog, run, prev>>

\* the replicates of this burst are done: next_burst=dm.next()
NullNext ==
    /\ pc \in {"kernel_done", "for_j"}
    /\ InNull
    /\ ~(snl.j <= self.num_null_samples)
    /\ blocks' = <<>>
    /\ \E n \in DmNext(dm) :
         /\ dm' = n.dm
         /\ next_burst' = n.burst
    /\ pc' = "while"
    /\ trace' = Append(trace, "next")
    /\ UNCHANGED <<self, km, cm, op, entry, kernel, pending, csv, csq, snl,
                   sel, ret, err, joblog, run, prev>>

\* a for_each whose lambda takes each entry by value
NullNormalizeForEach_ByValue(statistic) == statistic

\* std::for_each with a lambda that takes each entry by reference
NullNormalizeForEach(statistic) ==
    [i \in 1..Len(statistic) |-> normalize_statistic(statistic[i])]

NullFinish ==
    /\ pc = "while"
    /\ InNull
    /\ IsEmpty(next_burst)
    /\ dm' = DmEnd(dm)
    /\ cm' = [cm EXCEPT !.done = TRUE]
    /\ ret' = <<NullNormalizeForEach(snl.statistic)>>
    /\ pc' = "returned"
    /\ trace' = LoopEnd(trace)
    /\ UNCHANGED <<self, km, op, entry, kernel, next_burst, blocks, pending,
                   csv, csq, snl, sel, err, joblog, run, prev>>

\* set_num_null_samples was called with a replicate count and kernel slot 0
\* is empty or holds a kernel
InitNull ==
    /\ InitCommon
    /\ dm = DmInit(MaxBlocks)
    /\ \E c \in Configured, r \in 0..MaxNull :
         self = [c EXCEPT !.num_null_samples = r]
    /\ km \in {<<NoKernel>>, <<Kernel(1)>>}

NextNull ==
    \/ NullCall
    \/ NullMerge
    \/ NullComputeKernel
    \/ NullComputeJobs
    \/ NullFold
    \/ NullNext
    \/ NullFinish
    \/ Stages

SpecNull == InitNull /\ [][NextNull]_vars

\* ------------------------------------------------------- select_kernel
\* train/test ratios are drawn from 0..MaxRatio
MaxRatio == 2

InSelect == op = "select_kernel"

\* EKernelSelectionMethod; KSM_AUTO stands for every value the switch of
\* select_kernel has no case for
Methods == {"KSM_MEDIAN_HEURISTIC", "KSM_MAXIMIZE_XVALIDATION",
            "KSM_MAXIMIZE_MMD", "KSM_MAXIMIZE_POWER", "KSM_AUTO"}

\* a switch that lets the weighted flag through for every method
PolicyFor_WeightedUnchecked(kmethod, weighted_kernel) ==
    CASE kmethod = "KSM_MEDIAN_HEURISTIC" -> "MedianHeuristic"
      [] kmethod = "KSM_MAXIMIZE_XVALIDATION" -> "MaxXValidation"
      [] kmethod = "KSM_MAXIMIZE_MMD" ->
             IF weighted_kernel THEN "WeightedMaxMeasure" ELSE "MaxMeasure"
      [] kmethod = "KSM_MAXIMIZE_POWER" ->
             IF weighted_kernel THEN "WeightedMaxTestPower" ELSE "MaxTestPower"
      [] OTHER -> "SG_ERROR"

\* the switch of select_kernel: the policy it constructs, or the check
\* that throws
PolicyFor(kmethod, weighted_kernel) ==
    CASE kmethod = "KSM_MEDIAN_HEURISTIC" ->
             IF weighted_kernel THEN "REQUIRE" ELSE "MedianHeuristic"
      [] kmethod = "KSM_MAXIMIZE_XVALIDATION" ->
             IF weighted_kernel THEN "REQUIRE" ELSE "MaxXValidation"
      [] kmethod = "KSM_MAXIMIZE_MMD" ->
             IF weighted_kernel THEN "WeightedMaxMeasure" ELSE "MaxMeasure"
      [] kmethod = "KSM_MAXIMIZE_POWER" ->
             IF weighted_kernel THEN "WeightedMaxTestPower" ELSE "MaxTestPower"
      [] OTHER -> "SG_ERROR"

\* dm.set_train_test_ratio(train_test_ratio); dm.set_train_mode(true)
SelectEnter(d, train_test_ratio) ==
    [d EXCEPT !.ratio = train_test_ratio, !.train_mode = TRUE]

\* a return that leaves the data source in training mode
SelectLeave_StillTraining(d) == d

\* dm.set_train_mode(false)
SelectLeave(d) == [d EXCEPT !.train_mode = FALSE]

\* dm.set_train_test_ratio(0); dm.reset()
MedianReset(d) == DmReset([d EXCEPT !.ratio = 0])

\* select_kernel up to the end of its switch, except the call of
\* compute_distance and what follows it in the median-heuristic case
SelectCall(kmethod, weighted_kernel, train_test_ratio) ==
    /\ pc = "idle"
    /\ op' = "select_kernel"
    /\ entry' = "select_kernel"
    /\ dm' = SelectEnter(dm, train_test_ratio)
    /\ trace' = <<"set_train_test_ratio", "set_train_mode">>
    /\ LET policy == PolicyFor(kmethod, weighted_kernel)
           called == [sel EXCEPT !.kmethod = kmethod,
                                 !.weighted_kernel = weighted_kernel,
                                 !.train_test_ratio = train_test_ratio,
                                 !.policy = "nullptr", !.policy_calls = 0]
       IN  CASE policy = "REQUIRE" ->
                    /\ Fail("Weighted kernel selection is not possible!")
                    /\ sel' = called
             [] policy = "SG_ERROR" ->
                    /\ Fail("Unsupported kernel selection method specified!")
                    /\ sel' = called
             [] policy = "MedianHeuristic" ->
                    /\ pc' = "compute_distance"
                    /\ sel' = called
                    /\ UNCHANGED <<ret, err>>
             [] OTHER ->
                    /\ pc' = "policy"
                    /\ sel' = [called EXCEPT !.policy = policy]
                    /\ UNCHANGED <<ret, err>>
    /\ UNCHANGED <<self, km, cm, kernel, next_burst, blocks, pending, csv, csq,
                   snl, joblog, run, prev>>

\* what becomes of the samples compute_distance fetched; both failures end
\* in the SG_SERROR of the catch block
DistanceOutcomes == {"distance", "init_failed", "exception"}

\* compute_distance, and in select_kernel the construction of the
\* MedianHeuristic policy, dm.set_train_test_ratio(0) and dm.reset()
ComputeDistance ==
    /\ pc = "compute_distance"
    /\ InSelect
    /\ LET blockwise == dm.blockwise
           fetched == trace \o <<"set_blockwise", "start", "next", "end">>
           failed == [sel EXCEPT !.blockwise = blockwise]
       IN  \E n \in DmNext(DmStart([dm EXCEPT !.blockwise = FALSE])),
              o \in DistanceOutcomes :
             IF ~IsEmpty(n.burst)
             THEN CASE o = "distance" ->
                           /\ dm' = MedianReset(
                                  [DmEnd(n.dm) EXCEPT !.blockwise = blockwise])
                           /\ sel' = [sel EXCEPT !.policy = "MedianHeuristic",
                                                 !.distance = "set",
                                                 !.blockwise = blockwise]
                           /\ trace' = fetched \o <<"set_blockwise",
                                           "set_train_test_ratio", "reset">>
                           /\ pc' = "policy"
                           /\ UNCHANGED <<ret, err>>
                    [] o = "init_failed" ->
                           /\ dm' = DmEnd(n.dm)
                           /\ Fail("Computing distance matrix was not possible!")
                           /\ sel' = failed
                           /\ trace' = fetched
                    [] o = "exception" ->
                           /\ dm' = DmEnd(n.dm)
                           /\ Fail("Data is too large!")
                           /\ sel' = failed
                           /\ trace' = fetched
             ELSE /\ dm' = DmEnd(n.dm)
                  /\ Fail("Could not fetch samples!")
                  /\ sel' = failed
                  /\ trace' = fetched
    /\ UNCHANGED <<self, km, cm, op, entry, kernel, next_burst, blocks,
                   pending, csv, csq, snl, joblog, run, prev>>

\* the kernels a policy may return: one of the selection set, or for a
\* weighted policy their combination
CombinedKernel == [type |-> "K_COMBINED", width |-> 0]
PolicyResults(policy) ==
    IF policy \in {"WeightedMaxMeasure", "WeightedMaxTestPower"}
    THEN {CombinedKernel}
    ELSE {self.kernel_selection_mgr[i] : i \in 1..num_kernels}

\* ASSERT(policy!=nullptr); km.kernel_at(0)=policy->select_kernel();
\* km.restore_kernel_at(0); dm.set_train_mode(false)
SelectInstall ==
    /\ pc = "policy"
    /\ InSelect
    /\ sel.policy # "nullptr"
    /\ \E chosen \in PolicyResults(sel.policy) :
         km' = [km EXCEPT ![1] = chosen]
    /\ sel' = [sel EXCEPT !.policy_calls = @ + 1]
    /\ dm' = SelectLeave(dm)
    /\ trace' = trace \o <<"select_kernel", "restore_kernel_at", "set_train_mode">>
    /\ pc' = "returned"
    /\ UNCHANGED <<self, cm, op, entry, kernel, next_burst, blocks, pending,
                   csv, csq, snl, ret, err, joblog, run, prev>>

\* kernels were added to the selection set, the data source has some
\* train/test ratio and streams blockwise or not, kernel slot 0 is empty
InitSelect ==
    /\ InitCommon
    /\ \E r \in 0..MaxRatio, b \in BOOLEAN :
         dm = [DmInit(MaxBlocks) EXCEPT !.ratio = r, !.blockwise = b]
    /\ \E c \in Configured, ks \in KernelSets \ {<<>>} :
         self = [c EXCEPT !.kernel_selection_mgr = ks]
    /\ km = <<NoKernel>>

NextSelect ==
    \/ \E m \in Methods, w \in BOOLEAN, r \in 0..MaxRatio : SelectCall(m, w, r)
    \/ ComputeDistance
    \/ SelectInstall

SpecSelect == InitSelect /\ [][NextSelect]_vars

\* ------------------------------------------------- any of the operations
\* the object as configured for one of the estimations; the caller then
\* calls any of them (sample_null for at most MaxNull replicates)
InitAny == InitSV \/ InitQ \/ InitNull

NextAny ==
    \/ \E e \in Entries : SVCall(e)
    \/ SVMerge
    \/ SVComputeKernel
    \/ SVComputeJobs
    \/ SVFold
    \/ SVFinish
    \/ QCall
    \/ QMerge
    \/ QComputeKernel
    \/ QComputeJobs
    \/ QFoldStatistic
    \/ QFoldQ
    \/ QFinish
    \/ (self.num_null_samples <= MaxNull /\ NullCall)
    \/ NullMerge
    \/ NullComputeKernel
    \/ NullComputeJobs
    \/ NullFold
    \/ NullNext
    \/ NullFinish
    \/ Stages

SpecAny == InitAny /\ [][NextAny]_vars

\* =====================================================================
\* Properties
\* =====================================================================
RECURSIVE SumSeq(_)
SumSeq(xs) == IF xs = <<>> THEN 0 ELSE xs[1] + SumSeq(Tail(xs))

\* the arithmetic mean of a sequence of scalars (0 for none)
MeanOf(xs) == IF xs = <<>> THEN Zero ELSE Frac(SumSeq(xs), Len(xs))

\* the scalars a job without random draws yields on the blocks of a burst,
\* computed from the burst itself, in block order
BurstScalars(job, k, b) ==
    [i \in 1..NumBlocks(b) |->
        EvalJob(job, get_kernel_matrix(k, create_merged_copy(b.p[i], b.q[i])), 0)]

RECURSIVE StreamScalars(_, _, _)
StreamScalars(job, k, bursts) ==
    IF bursts = <<>> THEN <<>>
    ELSE BurstScalars(job, k, bursts[1]) \o StreamScalars(job, k, Tail(bursts))

\* the bursts whose scalars have been folded (one executor log entry each)
FoldedBursts == SubSeq(dm.tape, 1, Len(joblog))

InCsv == op = "compute_statistic_variance"
Direct == self.variance_estimation_method = "VEM_DIRECT"
Permutation == self.variance_estimation_method = "VEM_PERMUTATION"

\* C6: in compute_statistic_variance, after the folds of bursts holding K
\* blocks in total the statistic term counter is K+1 and the un-normalised
\* statistic is the arithmetic mean of the K per-block statistic scalars,
\* however the blocks are grouped into bursts; in direct variance mode the
\* same holds of the variance accumulator and the variance-job scalars; with
\* one burst of one block the statistic returned by compute_statistic and
\* compute_statistic_variance is the normalised statistic-job value of that
\* block.
C6_OnlineMean ==
    (InCsv /\ pc \in {"while", "returned"}) =>
        LET xs == StreamScalars(self.statistic_job, kernel, FoldedBursts)
            vs == StreamScalars(self.variance_job, kernel, FoldedBursts)
        IN  /\ csv.statistic_term_counter = Len(xs) + 1
            /\ csv.statistic = MeanOf(xs)
            /\ Direct => /\ csv.variance_term_counter = Len(vs) + 1
                         /\ csv.variance = MeanOf(vs)
            /\ (pc = "returned" /\ Len(xs) = 1 /\ entry # "compute_variance")
                  => ret[1] = normalize_statistic(FromInt(xs[1]))

\* three blocks in two bursts were folded in direct mode and the mean is not
\* an integer
C6_Witness ==
    /\ InCsv /\ pc = "returned" /\ Direct
    /\ Len(joblog) = 2
    /\ csv.statistic_term_counter = 4
    /\ csv.statistic[2] # 1
    /\ csv.variance[2] # 1

\* C7: compute_statistic() returns exactly the first component of
\* compute_statistic_variance() on the same configuration and stream; in
\* each call the accumulated statistic is normalised exactly once, and the
\* accumulated variance exactly once in permutation mode and not at all in
\* direct mode.
C7_NormalizedOnce ==
    (InCsv /\ pc = "returned") =>
        LET s == normalize_statistic(csv.statistic)
            v == IF Permutation THEN normalize_variance(csv.variance)
                 ELSE csv.variance
        IN  /\ entry = "compute_statistic" => ret = <<s>>
            /\ entry = "compute_variance" => ret = <<v>>
            /\ entry = "compute_statistic_variance" => ret = <<s, v>>
            /\ (run > 1 /\ prev.entry = "compute_statistic"
                        /\ entry = "compute_statistic_variance")
                  => prev.ret[1] = ret[1]
            /\ (run > 1 /\ prev.entry = "compute_statistic_variance"
                        /\ entry = "compute_statistic")
                  => prev.ret[1] = ret[1]

\* compute_statistic() and then compute_statistic_variance() returned on the
\* same stream in permutation mode, with a non-zero statistic and variance
C7_Witness ==
    /\ InCsv /\ pc = "returned" /\ Permutation
    /\ run = 2
    /\ prev.entry = "compute_statistic"
    /\ entry = "compute_statistic_variance"
    /\ ret[1][1] # 0
    /\ ret[2][1] # 0

\* C10: what compute_statistic_variance returns does not depend on the order
\* in which the parallel per-block tasks ran: slot i of every stage holds the
\* value of block i, so the executor's outputs of the jobs without random
\* draws are the per-block scalars of the stream in block order; and a
\* second run on the same frozen stream with the same job outputs returns
\* the identical pair.
C10_Deterministic ==
    (InCsv /\ pc = "returned") =>
        /\ \A b \in 1..Len(joblog) :
             /\ joblog[b][1] = BurstScalars(self.statistic_job, kernel, dm.tape[b])
             /\ Direct =>
                  joblog[b][2] = BurstScalars(self.variance_job, kernel, dm.tape[b])
        /\ (run > 1 /\ prev.entry = entry /\ prev.joblog = joblog)
              => prev.ret = ret
        /\ (run > 1 /\ Direct) => prev.joblog = joblog

\* the second run over a stream with a burst of two blocks returned a pair
\* with a non-zero statistic
C10_Witness ==
    /\ InCsv /\ pc = "returned" /\ run = 2
    /\ prev.entry = "compute_statistic_variance"
    /\ entry = "compute_statistic_variance"
    /\ \E b \in 1..Len(dm.tape) : NumBlocks(dm.tape[b]) = 2
    /\ prev.joblog = joblog
    /\ ret[1][1] # 0

\* ------------------------------------------ compute_statistic_and_Q
\* the bursts compute_statistic_and_Q has folded into statistic and Q
QFoldedBursts == SubSeq(dm.tape, 1, Len(joblog) \div num_kernels)

\* kernel i's per-block statistic scalars over the folded bursts
KernelScalars(i) ==
    StreamScalars(self.statistic_job, self.kernel_selection_mgr[i], QFoldedBursts)

\* C1: in compute_statistic_and_Q, Q(i,j) = Q(j,i) for every kernel pair
\* after each burst's fold and in the returned matrix.
C1_QSymmetric ==
    (InCsq /\ pc \in {"while", "returned"}) =>
        /\ \A i, j \in 1..num_kernels : csq.Q[i][j] = csq.Q[j][i]
        /\ pc = "returned" =>
             \A i, j \in 1..num_kernels : ret[2][i][j] = ret[2][j][i]

\* two bursts were folded for two kernels and the off-diagonal cell is not 0
C1_Witness ==
    /\ InCsq /\ pc = "returned"
    /\ num_kernels = 2
    /\ Len(dm.tape) = 2
    /\ ret[2][2][1] # Zero
    /\ ret[2][1][2] # Zero

\* C2: every entry k of the statistic vector compute_statistic_and_Q returns
\* is normalize_statistic applied to the running mean of kernel k's
\* per-block statistic scalars.
C2_StatisticNormalized ==
    (InCsq /\ pc = "returned") =>
        \A k \in 1..num_kernels :
            ret[1][k] = normalize_statistic(MeanOf(KernelScalars(k)))

\* C4: an odd-sized burst makes compute_statistic_and_Q fail with the shape
\* error; that step changes no accumulator (statistic means, Q cells, all
\* term counters keep the values of the previous burst's fold) and no
\* result pair is returned.
C4_OddBurstFails ==
    [][(InCsq /\ pc = "while" /\ NumBlocks(next_burst) % 2 = 1)
          => /\ pc' = "failed"
             /\ err' = "The number of blocks per burst has to be even!"
             /\ ret' = NoResult
             /\ csq' = csq]_vars

\* the call failed on an odd burst after an even burst had been folded into
\* non-zero accumulators
C4_Witness ==
    /\ InCsq /\ pc = "failed"
    /\ err = "The number of blocks per burst has to be even!"
    /\ Len(dm.tape) = 2
    /\ NumBlocks(dm.tape[2]) = 1
    /\ csq.term_counters_statistic[1] = 3
    /\ csq.statistic[1] # Zero
    /\ csq.Q[1][1] # Zero

\* the squared differences of the adjacent block pairs (1,2), (3,4), ...
RECURSIVE PairSquares(_)
PairSquares(xs) ==
    IF Len(xs) < 2 THEN <<>>
    ELSE <<(xs[1] - xs[2]) * (xs[1] - xs[2])>> \o PairSquares(Tail(Tail(xs)))

\* the variance accumulator of the permutation-mode loop of
\* compute_statistic_variance after the scalars xs
OnePassVariance(xs) == FoldPermVariance(Zero, Zero, 1, xs)[2]

\* C8 as claimed: after every burst Q(i,i) is what the permutation-mode
\* one-pass variance rule yields for kernel i's per-block scalars.
C8_DiagonalIsOnePassVariance ==
    (InCsq /\ pc \in {"while", "returned"}) =>
        \A i \in 1..num_kernels : csq.Q[i][i] = OnePassVariance(KernelScalars(i))

\* C8 as it holds: after every burst Q(i,i) is the running mean, over the
\* adjacent block pairs (2k, 2k+1) folded so far, of the squared difference
\* of kernel i's two statistic scalars, and its term counter is the number
\* of pairs plus one.
C8_DiagonalIsMeanSquaredDifference ==
    (InCsq /\ pc \in {"while", "returned"}) =>
        \A i \in 1..num_kernels :
            /\ csq.Q[i][i] = MeanOf(PairSquares(KernelScalars(i)))
            /\ csq.term_counters_Q[i][i] = Len(PairSquares(KernelScalars(i))) + 1

\* two bursts were folded and the diagonal cell of kernel 2 is a non-zero
\* mean of two different squared differences
C8_Witness ==
    /\ InCsq /\ pc = "while"
    /\ num_kernels = 2
    /\ Len(joblog) = 4
    /\ csq.term_counters_Q[2][2] = 3
    /\ LET sq == PairSquares(KernelScalars(2)) IN sq[1] # sq[2]
    /\ csq.Q[2][2] # Zero

\* ------------------------------------------------------- sample_null
\* the outputs the executor returned for replicate j, over all bursts
RECURSIVE ReplicateOutputs(_, _)
ReplicateOutputs(log, j) ==
    IF Len(log) < self.num_null_samples THEN <<>>
    ELSE log[j][1] \o ReplicateOutputs(
             SubSeq(log, self.num_null_samples + 1, Len(log)), j)

\* C5: sample_null with replicate count R over a stream of K blocks returns
\* exactly R values; value j is normalize_statistic applied once to the
\* mean over all K blocks of replicate j's permutation-job outputs, and
\* every replicate's term counter ends at K+1, however the blocks are
\* split into bursts.
C5_NullSamples ==
    (InNull /\ pc = "returned") =>
        LET R == self.num_null_samples
            K == TapeBlocks(dm.tape)
        IN  /\ Len(ret[1]) = R
            /\ \A j \in 1..R :
                 /\ Len(ReplicateOutputs(joblog, j)) = K
                 /\ ret[1][j] =
                      normalize_statistic(MeanOf(ReplicateOutputs(joblog, j)))
                 /\ snl.term_counters[j] = K + 1

\* two replicates over three blocks in two bursts returned different,
\* non-zero values
C5_Witness ==
    /\ InNull /\ pc = "returned"
    /\ self.num_null_samples = 2
    /\ TapeBlocks(dm.tape) = 3
    /\ Len(dm.tape) = 2
    /\ ret[1][1] # ret[1][2]
    /\ ret[1][1] # Zero
    /\ ret[1][2] # Zero

\* ------------------------------------------------------ select_kernel
Supported == {"KSM_MEDIAN_HEURISTIC", "KSM_MAXIMIZE_XVALIDATION",
              "KSM_MAXIMIZE_MMD", "KSM_MAXIMIZE_POWER"}

\* the calls select_kernel rejects as configuration errors
ConfigError ==
    \/ sel.kmethod \notin Supported
    \/ /\ sel.weighted_kernel
       /\ sel.kmethod \in {"KSM_MEDIAN_HEURISTIC", "KSM_MAXIMIZE_XVALIDATION"}

\* C3 as claimed: whatever the method, when select_kernel returns the
\* training mode is off and the train/test ratio has been reset.
C3_RatioResetForEveryMethod ==
    (InSelect /\ pc = "returned") =>
        /\ dm.train_mode = FALSE
        /\ dm.ratio = 0

\* C3 as it holds: when select_kernel returns the training mode is off for
\* every method; the ratio has been reset to 0 on the median-heuristic path
\* only, and for the other methods select_kernel leaves it at the ratio it
\* was passed.
C3_TrainModeOffRatioResetForMedian ==
    (InSelect /\ pc = "returned") =>
        /\ dm.train_mode = FALSE
        /\ sel.kmethod = "KSM_MEDIAN_HEURISTIC" => dm.ratio = 0
        /\ sel.kmethod # "KSM_MEDIAN_HEURISTIC" => dm.ratio = sel.train_test_ratio

\* a median-heuristic selection called with a non-zero ratio returned
C3_Witness ==
    /\ InSelect /\ pc = "returned"
    /\ sel.kmethod = "KSM_MEDIAN_HEURISTIC"
    /\ sel.train_test_ratio # 0
    /\ dm.ratio = 0

\* C9 as claimed: select_kernel fails without constructing or running a
\* policy and without installing a kernel on a configuration error, and on
\* every other call exactly one policy's select_kernel is called, once, and
\* its result installed in slot 0.
C9_PolicyRunsUnlessConfigError ==
    (InSelect /\ pc \in {"returned", "failed"}) =>
        IF ConfigError
        THEN /\ pc = "failed"
             /\ sel.policy = "nullptr" /\ sel.policy_calls = 0
             /\ km[1] = NoKernel
        ELSE /\ pc = "returned"
             /\ sel.policy = PolicyFor(sel.kmethod, sel.weighted_kernel)
             /\ sel.policy_calls = 1
             /\ km[1] \in PolicyResults(sel.policy)

\* C9 as it holds: one policy per successful call and none on failure.  A
\* configuration error makes the call fail; so does a failure of
\* compute_distance on the median-heuristic path; in both cases no policy is
\* constructed or run and slot 0 is untouched.  Every other call constructs
\* the one policy of its method and flag, calls its select_kernel once and
\* installs the result in slot 0.
C9_OnePolicyPerSuccessfulCall ==
    (InSelect /\ pc \in {"returned", "failed"}) =>
        /\ ConfigError => pc = "failed"
        /\ (pc = "returned" \/ sel.kmethod # "KSM_MEDIAN_HEURISTIC")
              => (ConfigError <=> pc = "failed")
        /\ pc = "failed" =>
             /\ sel.policy = "nullptr" /\ sel.policy_calls = 0
             /\ km[1] = NoKernel
        /\ pc = "returned" =>
             /\ sel.policy = PolicyFor(sel.kmethod, sel.weighted_kernel)
             /\ sel.policy_calls = 1
             /\ km[1] \in PolicyResults(sel.policy)

\* a weighted test-power selection returned with its policy's kernel in
\* slot 0
C9_Witness ==
    /\ InSelect /\ pc = "returned"
    /\ sel.kmethod = "KSM_MAXIMIZE_POWER" /\ sel.weighted_kernel
    /\ sel.policy = "WeightedMaxTestPower"
    /\ sel.policy_calls = 1
    /\ km[1] = CombinedKernel

\* ------------------------------------------------- every operation
InSampleNull == op = "sample_null"

\* the call ended at its first check: no call was made, the stream was not
\* started, no burst was fetched and no job was enqueued
FailsAtOnce(msg) ==
    /\ pc' = "failed"
    /\ err' = msg
    /\ ret' = NoResult
    /\ trace' = <<>>
    /\ dm' = dm
    /\ ~dm'.started /\ dm'.pos = 0 /\ dm'.tape = <<>>
    /\ next_burst' = EmptyBurst
    /\ cm'.jobs = <<>>

\* C11: compute_statistic_variance and sample_null called with kernel slot 0
\* empty fail with "Kernel is not set!", and compute_statistic_and_Q called
\* with an empty selection set fails with its own error; the failing call
\* has not started the stream, fetched a burst or enqueued a job.
C11_FailsBeforeStart ==
    [][(pc = "idle" /\ pc' # "idle") =>
          /\ (op' \in {"compute_statistic_variance", "sample_null"}
                 /\ km[1] = NoKernel)
                => FailsAtOnce("Kernel is not set!")
          /\ (op' = "compute_statistic_and_Q" /\ num_kernels = 0)
                => FailsAtOnce("No kernels specified for kernel learning!")]_vars

\* sample_null was called with kernel slot 0 empty and failed
C11_Witness ==
    /\ InSampleNull /\ pc = "failed"
    /\ km[1] = NoKernel
    /\ err = "Kernel is not set!"
    /\ trace = <<>>
    /\ ~dm.started

\* xs repeated n times
RECURSIVE Repeat(_, _)
Repeat(xs, n) == IF n = 0 THEN <<>> ELSE xs \o Repeat(xs, n - 1)

\* the blocks of the bursts fetched before the burst in next_burst
BlocksBefore == TapeBlocks(dm.tape) - NumBlocks(next_burst)

\* C12: an operation that completes normally has called start() once, then
\* next() once per burst with every fold of a burst before the next()
\* that fetches its successor, no next() after the one that returned the
\* empty burst, then end() once and then the executor's done(); and
\* whenever a burst has just been fetched every accumulator has counted all
\* blocks of the bursts before it (a cell of Q, in the lower triangle, one
\* term per block pair).
C12_BurstAtATime ==
    /\ (InCsv /\ pc = "returned") =>
          trace = <<"enqueue_job", "enqueue_job", "start", "next">>
                  \o Repeat(<<"merge_samples", "compute_kernel", "compute_jobs",
                              "fold", "next">>, Len(dm.tape))
                  \o <<"end", "done">>
    /\ (InCsq /\ pc = "returned") =>
          trace = <<"enqueue_job", "start", "next">>
                  \o Repeat(<<"merge_samples">>
                            \o Repeat(<<"compute_kernel", "compute_jobs", "fold">>,
                                      num_kernels)
                            \o <<"fold_Q", "next">>, Len(dm.tape))
                  \o <<"end", "done">>
    /\ (InSampleNull /\ pc = "returned") =>
          trace = <<"enqueue_job", "start", "next">>
                  \o Repeat(<<"merge_samples", "compute_kernel">>
                            \o Repeat(<<"compute_jobs", "fold">>,
                                      self.num_null_samples)
                            \o <<"next">>, Len(dm.tape))
                  \o <<"end", "done">>
    /\ pc = "returned" =>
          /\ IsEmpty(next_burst) /\ dm.closed
          /\ ~dm.started /\ cm.done
    /\ (InCsv /\ pc = "while") =>
          /\ csv.statistic_term_counter = BlocksBefore + 1
          /\ csv.variance_term_counter = BlocksBefore + 1
    /\ (InCsq /\ pc = "while") =>
          \A i \in 1..num_kernels :
              /\ csq.term_counters_statistic[i] = BlocksBefore + 1
              /\ \A j \in 1..i :
                   2 * (csq.term_counters_Q[i][j] - 1) = BlocksBefore
    /\ (InSampleNull /\ pc = "while") =>
          \A j \in 1..self.num_null_samples :
              snl.term_counters[j] = BlocksBefore + 1

\* compute_statistic_and_Q returned after two bursts for two kernels
C12_Witness ==
    /\ InCsq /\ pc = "returned"
    /\ num_kernels = 2
    /\ Len(dm.tape) = 2
    /\ Len(trace) = 23

\* ------------------------------------------------- a kernel matrix fails
KernelFailed == err = "Try using less number of blocks per burst!"

\* the blocks of the bursts before the one that was fetched last
BlocksBeforeLast == TapeBlocks(SubSeq(dm.tape, 1, Len(dm.tape) - 1))

\* the calls made since the last burst was merged
RECURSIVE SinceMerge(_)
SinceMerge(t) ==
    IF t = <<>> \/ t[Len(t)] = "merge_samples" THEN <<>>
    ELSE Append(SinceMerge(SubSeq(t, 1, Len(t) - 1)), t[Len(t)])

\* the operation ended without a result in the compute_kernel call that
\* failed; the failed block was not skipped
EndsInComputeKernel ==
    /\ pc \in ThrowOutcomes
    /\ ret = NoResult
    /\ trace[Len(trace)] = "compute_kernel"

\* C13 as claimed: when a block's kernel matrix fails the operation ends
\* with a fatal error and without a result, no job was evaluated and no
\* fold was reached for that burst, and no accumulator of the operation
\* has counted a scalar of that burst.
C13_NothingOfTheBurstFolded ==
    KernelFailed =>
        /\ EndsInComputeKernel
        /\ SinceMerge(trace) = <<"compute_kernel">>
        /\ InCsv => /\ csv.statistic_term_counter = BlocksBeforeLast + 1
                    /\ csv.variance_term_counter = BlocksBeforeLast + 1
        /\ InSampleNull =>
              \A j \in 1..self.num_null_samples :
                  snl.term_counters[j] = BlocksBeforeLast + 1
        /\ InCsq =>
              \A i \in 1..num_kernels :
                  /\ csq.term_counters_statistic[i] = BlocksBeforeLast + 1
                  /\ \A j \in 1..i :
                       2 * (csq.term_counters_Q[i][j] - 1) = BlocksBeforeLast

\* C13 as it holds: the operation ends with a fatal error and without a
\* result in the failing compute_kernel call and the failed block is not
\* skipped.  In compute_statistic_variance and sample_null no job was
\* evaluated and nothing was folded for that burst.  In
\* compute_statistic_and_Q the kernels before the failing one have had
\* their jobs evaluated and that burst's scalars folded into their
\* statistic means; the failing and the later kernels have not, and no
\* cell of Q has a term of that burst.
C13_FailingKernelNotFolded ==
    KernelFailed =>
        /\ EndsInComputeKernel
        /\ InCsv =>
              /\ SinceMerge(trace) = <<"compute_kernel">>
              /\ csv.statistic_term_counter = BlocksBeforeLast + 1
              /\ csv.variance_term_counter = BlocksBeforeLast + 1
              /\ csv.statistic =
                   MeanOf(StreamScalars(self.statistic_job, kernel, FoldedBursts))
              /\ Len(FoldedBursts) = Len(dm.tape) - 1
        /\ InSampleNull =>
              /\ SinceMerge(trace) = <<"compute_kernel">>
              /\ \A j \in 1..self.num_null_samples :
                   snl.term_counters[j] = BlocksBeforeLast + 1
        /\ InCsq =>
              /\ SinceMerge(trace) =
                   Repeat(<<"compute_kernel", "compute_jobs", "fold">>, csq.k - 1)
                   \o <<"compute_kernel">>
              /\ \A i \in 1..num_kernels :
                   /\ csq.term_counters_statistic[i] =
                        BlocksBeforeLast + 1
                        + (IF i < csq.k THEN csq.num_blocks ELSE 0)
                   /\ \A j \in 1..i :
                        2 * (csq.term_counters_Q[i][j] - 1) = BlocksBeforeLast

\* in compute_statistic_and_Q the matrix of a block failed for the second
\* kernel, in the second burst
C13_Witness ==
    /\ InCsq /\ KernelFailed
    /\ csq.k = 2
    /\ Len(dm.tape) = 2
    /\ csq.term_counters_statistic = <<5, 3>>

\* ------------------------------------------------------- merge_samples
\* the burst the data source delivered last
LastBurst == dm.tape[dm.pos]

\* C14: while the merge tasks of a burst run, in any order, the burst is
\* still held and the block list has one slot per block of the burst, the
\* slot of every finished task i holding the merge of P-block i with
\* Q-block i and the other slots nothing; when merge_samples returns
\* every slot is filled that way and the burst has been cleared.
C14_SlotPerBlock ==
    /\ pc = "merge" =>
          /\ next_burst = LastBurst
          /\ Len(blocks) = NumBlocks(LastBurst)
          /\ \A i \in 1..Len(blocks) :
               blocks[i] = IF i \in pending THEN NoFeatures
                           ELSE create_merged_copy(LastBurst.p[i], LastBurst.q[i])
    /\ pc = "merged" =>
          /\ IsEmpty(next_burst)
          /\ Len(blocks) = NumBlocks(LastBurst)
          /\ \A i \in 1..Len(blocks) :
               blocks[i] = create_merged_copy(LastBurst.p[i], LastBurst.q[i])

\* merge_samples returned two different merged blocks for the second burst
C14_Witness ==
    /\ pc = "merged"
    /\ Len(dm.tape) = 2
    /\ Len(blocks) = 2
    /\ blocks[1][1] # blocks[2][1]
    /\ blocks[1][2] # blocks[2][2]

\* ------------------------------------------- permutation variance
\* the scalars of job number j the executor returned in this call, over all
\* bursts in order
RECURSIVE JobOutputs(_, _)
JobOutputs(log, j) ==
    IF log = <<>> THEN <<>> ELSE log[1][j] \o JobOutputs(Tail(log), j)

\* the first n entries of xs
Prefix(xs, n) == SubSeq(xs, 1, n)

\* the sum over k of (x_k - mean of x_1..x_(k-1)) * (x_k - mean of x_1..x_k),
\* the mean of no scalars being 0
RECURSIVE CrossTermSum(_, _)
CrossTermSum(xs, k) ==
    IF k = 0 THEN Zero
    ELSE Add(CrossTermSum(xs, k - 1),
             Mul(Sub(FromInt(xs[k]), MeanOf(Prefix(xs, k - 1))),
                 Sub(FromInt(xs[k]), MeanOf(Prefix(xs, k)))))

RECURSIVE SumSquares(_)
SumSquares(xs) == IF xs = <<>> THEN 0 ELSE xs[1] * xs[1] + SumSquares(Tail(xs))

\* the sum of the squared deviations of xs from their mean
SquaredDeviations(xs) ==
    IF xs = <<>> THEN Zero
    ELSE Frac(Len(xs) * SumSquares(xs) - SumSeq(xs) * SumSeq(xs), Len(xs))

\* C15: in permutation variance mode, after the folds of n variance-job
\* scalars the permuted-statistic mean is their arithmetic mean, the
\* variance counter is n+1 and the variance accumulator is the sum over the
\* scalars x of (x - mean before x) * (x - mean after x), which is the sum
\* of their squared deviations, not divided by n; the returned variance is
\* normalize_variance of exactly that sum.
C15_PermutationVariance ==
    (InCsv /\ Permutation /\ pc \in {"while", "returned"}) =>
        LET xs == JobOutputs(joblog, 2)
        IN  /\ csv.permuted_samples_statistic = MeanOf(xs)
            /\ csv.variance_term_counter = Len(xs) + 1
            /\ csv.variance = CrossTermSum(xs, Len(xs))
            /\ csv.variance = SquaredDeviations(xs)
            /\ (pc = "returned" /\ entry = "compute_statistic_variance")
                  => ret[2] = normalize_variance(CrossTermSum(xs, Len(xs)))
            /\ (pc = "returned" /\ entry = "compute_variance")
                  => ret[1] = normalize_variance(CrossTermSum(xs, Len(xs)))

\* three scalars, not all equal, were folded in two bursts and the variance
\* was returned
C15_Witness ==
    /\ InCsv /\ Permutation /\ pc = "returned"
    /\ entry = "compute_statistic_variance"
    /\ Len(joblog) = 2
    /\ csv.variance_term_counter = 4
    /\ csv.variance[2] # 1
    /\ ret[2] = normalize_variance(csv.variance)

\* ------------------------------------------- the replicates of a burst
\* the bursts sample_null has finished all replicates of
NullBurstsDone ==
    IF pc = "while" /\ ~IsEmpty(next_burst) THEN Len(dm.tape) - 1
    ELSE Len(dm.tape)

\* the kernel matrices of the blocks of burst b, in block order
BurstMatrices(k, b) ==
    [i \in 1..NumBlocks(b) |->
        get_kernel_matrix(k, create_merged_copy(b.p[i], b.q[i]))]

\* C16: in sample_null with replicate count R every non-empty burst is
\* merged once, its kernel matrices are computed once and the permutation
\* job batch is evaluated R times, each evaluation followed by its fold;
\* during the R evaluations the executor holds the kernel matrices of that
\* burst's blocks; and accumulator j is the running mean of the outputs of
\* the evaluations number j alone, with its own counter.
C16_ReplicatesPerBurst ==
    LET R == self.num_null_samples
    IN  /\ (InSampleNull /\ pc \in {"while", "returned"}) =>
              /\ trace = <<"enqueue_job", "start", "next">>
                         \o Repeat(<<"merge_samples", "compute_kernel">>
                                   \o Repeat(<<"compute_jobs", "fold">>, R)
                                   \o <<"next">>, NullBurstsDone)
                         \o (IF pc = "returned" THEN <<"end", "done">> ELSE <<>>)
              /\ Len(joblog) = R * NullBurstsDone
              /\ \A j \in 1..R :
                   /\ snl.statistic[j] = MeanOf(ReplicateOutputs(joblog, j))
                   /\ snl.term_counters[j] =
                        Len(ReplicateOutputs(joblog, j)) + 1
        /\ (InSampleNull /\ pc \in {"kernel_done", "jobs", "jobs_done", "for_j"}) =>
              /\ cm.data = BurstMatrices(kernel, LastBurst)
              /\ SinceMerge(trace) =
                   <<"compute_kernel">>
                   \o Repeat(<<"compute_jobs", "fold">>,
                             IF pc = "kernel_done" THEN 0 ELSE snl.j - 1)
                   \o (IF pc \in {"jobs", "jobs_done"} THEN <<"compute_jobs">>
                       ELSE <<>>)
              /\ snl.j <= R + 1
              /\ \A j \in 1..R :
                   snl.term_counters[j] =
                       BlocksBeforeLast + 1
                       + (IF j < snl.j THEN NumBlocks(LastBurst) ELSE 0)
              /\ pc = "jobs_done" =>
                   \A i \in 1..NumBlocks(LastBurst) :
                       cm.results[1][i]
                         - StatisticValue(StatisticJob(self.statistic_type).kind,
                                          BurstMatrices(kernel, LastBurst)[i])
                       \in 0..MaxPerm

\* both replicates of the second burst have been folded and the two
\* accumulators differ
C16_Witness ==
    /\ InSampleNull /\ pc = "for_j"
    /\ self.num_null_samples = 2
    /\ Len(dm.tape) = 2
    /\ snl.j = 3
    /\ Len(joblog) = 4
    /\ snl.statistic[1] # snl.statistic[2]

\* ------------------------------------------------- what a failure leaves
\* C17: a call of select_kernel that fails with a configuration error
\* (weighted flag with median-heuristic or cross-validation, unsupported
\* method) leaves the data source's training mode and train/test ratio as
\* they were before the call.
C17_ConfigErrorLeavesDataSource ==
    [][(pc = "idle" /\ op' = "select_kernel" /\ pc' = "failed")
          => /\ dm'.train_mode = dm.train_mode
             /\ dm'.ratio = dm.ratio]_vars

\* C18: when compute_statistic_variance, compute_statistic_and_Q or
\* sample_null has ended, with a result or with a fatal error, the stream
\* of the data source is not started: every start() was followed by end().
C18_StreamEndedOnEveryPath ==
    pc \in {"returned", "failed"} => ~dm.started

\* compute_distance was called and has ended
DistanceEnded == \E i \in 1..Len(trace) : trace[i] = "set_blockwise"

\* C19: whenever compute_distance has ended, with a distance or with a
\* failure, the data source's blockwise flag is what it was before the
\* call.
C19_BlockwiseRestored ==
    (InSelect /\ DistanceEnded) => dm.blockwise = sel.blockwise

====
